---- MODULE Spec2Model ----
(***************************************************************************)
(* A model of gobuster's engine (libgobuster.Gobuster: Start, worker,      *)
(* getWordlist) and of its directory plugin (gobusterdir.GobusterDir:      *)
(* PreRun, Run).                                                           *)
(*                                                                         *)
(* Go strings are sequences of tokens, Go pointers to int, int64 or []byte *)
(* are sequences of length 0 (nil) or 1, Go errors are records.            *)
(***************************************************************************)
EXTENDS Integers, Sequences, FiniteSets, TLC

\* ------------------------------------------------------------------ bounds
MaxThreads == 2
MaxLines == 2

\* ------------------------------------------------------------ input domains
StatusCodeSet == {200, 404}
WhiteSpace == {" ", "\t"}
LineSet == { <<" ">>, <<"\t", "#", "a">>, <<" ", "a", "#", "\t">> }
DirLineSet == { <<"\t", "#", "a">>, <<" ", "a", "#", "\t">> }
ExtensionSets == { {}, {"php"}, {"php", "txt"} }
BaseURL == <<"http://t">>
CompiledName == <<"compiledwordlist.txt">>

\* ------------------------------------------------------------------ errors
NoErr == [kind |-> "nil", url |-> <<>>, statusCode |-> <<>>]
TransportErr(url) == [kind |-> "transport", url |-> url, statusCode |-> <<>>]
ConnectErr(url) == [kind |-> "unable to connect", url |-> url, statusCode |-> <<>>]
ErrWildcard(url, code) == [kind |-> "ErrWildcard", url |-> url, statusCode |-> <<code>>]
ErrNoLists == [kind |-> "both not set", url |-> <<>>, statusCode |-> <<>>]
ErrNilBody == [kind |-> "body was nil", url |-> <<>>, statusCode |-> <<>>]
WordlistErr(what) == [kind |-> what, url |-> <<>>, statusCode |-> <<>>]

\* ------------------------------------------------------------- permutations
RECURSIVE SeqsOf(_)
SeqsOf(S) ==
    IF S = {} THEN { <<>> }
    ELSE UNION { { <<x>> \o t : t \in SeqsOf(S \ {x}) } : x \in S }

\* a concatenation that takes the last file first
RECURSIVE ConcatLastFirst(_)
ConcatLastFirst(ss) ==
    IF ss = <<>> THEN <<>> ELSE ConcatLastFirst(Tail(ss)) \o Head(ss)

\* getWordlist, lines 171-185 and 197-203: the lines of the files, file after
\* file
RECURSIVE Concat(_)
Concat(ss) == IF ss = <<>> THEN <<>> ELSE Head(ss) \o Concat(Tail(ss))

\* ------------------------------------------------------------ strings
RECURSIVE TrimLeft(_)
TrimLeft(s) ==
    IF s # <<>> /\ Head(s) \in WhiteSpace THEN TrimLeft(Tail(s)) ELSE s

RECURSIVE TrimRight(_)
TrimRight(s) ==
    IF s # <<>> /\ s[Len(s)] \in WhiteSpace
    THEN TrimRight(SubSeq(s, 1, Len(s) - 1)) ELSE s

TrimSpace(s) == TrimRight(TrimLeft(s))

HasPrefix(s, c) == s # <<>> /\ Head(s) = c

HasSuffix(s, c) == s # <<>> /\ s[Len(s)] = c

\* a filter that forgets to trim the line
SkippedUntrimmed(word) == HasPrefix(word, "#") \/ Len(word) = 0

\* worker, lines 101-105: the line is skipped when this holds
Skipped(word) ==
    LET wordCleaned == TrimSpace(word)
    IN  HasPrefix(wordCleaned, "#") \/ Len(wordCleaned) = 0

\* ------------------------------------------------------- transport responses
\* What http.Get / http.GetWithBody hand back: a status pointer, a body
\* pointer and an error.  A failed call carries no status.
Responses ==
    { r \in [status : { <<>> } \cup { <<c>> : c \in StatusCodeSet },
             body : { <<>>, <<"html">> },
             err : BOOLEAN] : r.err => r.status = <<>> }

\* GobusterDir.get: the body only with GetWithBody, the length only with Get
get(url, grabwords, r) ==
    [status |-> r.status,
     length |-> IF grabwords \/ r.status = <<>> THEN <<>> ELSE <<0>>,
     body |-> IF grabwords THEN r.body ELSE <<>>,
     err |-> IF r.err THEN TransportErr(url) ELSE NoErr]

\* --------------------------------------------------------- classification
\* Run, lines 136-148: the directory candidate
ClassifyDir(o, code) ==
    IF Cardinality(o.StatusCodesBlacklistParsed) > 0
    THEN IF code \notin o.StatusCodesBlacklistParsed THEN "Found" ELSE "Missed"
    ELSE IF Cardinality(o.StatusCodesParsed) > 0
         THEN IF code \in o.StatusCodesParsed THEN "Found" ELSE "Missed"
         ELSE "Error"

\* a classification that looks at the allow-list first
ClassifyFileAllowFirst(o, code) ==
    IF Cardinality(o.StatusCodesParsed) > 0
    THEN IF code \in o.StatusCodesParsed THEN "Found" ELSE "Missed"
    ELSE IF Cardinality(o.StatusCodesBlacklistParsed) > 0
         THEN IF code \notin o.StatusCodesBlacklistParsed THEN "Found" ELSE "Missed"
         ELSE "Error"

\* Run, lines 176-188: a file candidate
ClassifyFile(o, code) ==
    IF Cardinality(o.StatusCodesBlacklistParsed) > 0
    THEN IF code \notin o.StatusCodesBlacklistParsed THEN "Found" ELSE "Missed"
    ELSE IF Cardinality(o.StatusCodesParsed) > 0
         THEN IF code \in o.StatusCodesParsed THEN "Found" ELSE "Missed"
         ELSE "Error"

\* PreRun, lines 83-87
NormalizeURL(url) == IF HasSuffix(url, "/") THEN url ELSE url \o <<"/">>

\* a baseline check whose deny-list branch forgets the override
WildcardCheckNoOverride(o, url, code) ==
    IF Cardinality(o.StatusCodesBlacklistParsed) > 0
    THEN IF code \notin o.StatusCodesBlacklistParsed
         THEN ErrWildcard(url, code) ELSE NoErr
    ELSE IF Cardinality(o.StatusCodesParsed) > 0
         THEN IF code \in o.StatusCodesParsed /\ ~o.WildcardForced
              THEN ErrWildcard(url, code) ELSE NoErr
         ELSE ErrNoLists

\* PreRun, lines 101-111: the check of the baseline response
WildcardCheck(o, url, code) ==
    IF Cardinality(o.StatusCodesBlacklistParsed) > 0
    THEN IF code \notin o.StatusCodesBlacklistParsed /\ ~o.WildcardForced
         THEN ErrWildcard(url, code) ELSE NoErr
    ELSE IF Cardinality(o.StatusCodesParsed) > 0
         THEN IF code \in o.StatusCodesParsed /\ ~o.WildcardForced
              THEN ErrWildcard(url, code) ELSE NoErr
         ELSE ErrNoLists

\* PreRun, lines 83-119.  o is the plugin's options after line 87, live and
\* wild the transport's answers to the two requests.
PreRun(o, live, wild) ==
    LET l == get(o.URL, FALSE, live)
        url == o.URL \o <<"uuid">>
        w == get(url, FALSE, wild)
    IN  IF l.err # NoErr THEN ConnectErr(o.URL)
        ELSE IF w.err # NoErr THEN w.err
        ELSE WildcardCheck(o, url, w.status[1])

\* the Result appended at lines 151-156 and 196-201
Result(entity, code, size, verdict) ==
    [Entity |-> entity, StatusCode |-> code, Size |-> size, Status |-> verdict]

\* an emission test that forgets verbose
EmittedFoundOnly(verbose, verdict) == verdict = "Found"

\* Run, lines 150 and 190: is a classified candidate put into the return value
Emitted(verbose, verdict) == verdict = "Found" \/ verbose

RunReturn(res, err, nreq, trace, scraped) ==
    [res |-> res, err |-> err, nreq |-> nreq, trace |-> trace, scraped |-> scraped]

\* Run, lines 161-204: the file candidates, order being the order in which
\* this call's range over the extension map yields the extensions.  trace
\* lists the candidates classified so far, scraped tells whether
\* ScrapeUniqueWords was called.
RECURSIVE RunFiles(_, _, _, _, _, _, _, _, _)
RunFiles(o, verbose, word, order, resps, k, ret, trace, scraped) ==
    IF k > Len(order) THEN RunReturn(ret, NoErr, k, trace, scraped)
    ELSE
      LET file == word \o <<".", order[k]>>
          url == o.URL \o file
          f == get(url, o.ScrapeWords > 0, resps[k + 1])
      IN  IF f.body = <<>> /\ o.ScrapeWords > 0
          THEN RunReturn(<<>>, ErrNilBody, k + 1, trace, scraped)
          ELSE IF f.err # NoErr
          THEN RunReturn(<<>>, f.err, k + 1, trace, scraped)
          ELSE IF f.status = <<>>
          THEN RunFiles(o, verbose, word, order, resps, k + 1, ret, trace, scraped)
          ELSE
            LET verdict == ClassifyFile(o, f.status[1])
                c == [entity |-> file, code |-> f.status[1], verdict |-> verdict]
            IN  IF verdict = "Error"
                THEN RunReturn(<<>>, ErrNoLists, k + 1, trace, scraped)
                ELSE IF Emitted(verbose, verdict)
                THEN RunFiles(o, verbose, word, order, resps, k + 1,
                         Append(ret, Result(file, f.status[1], f.length, verdict)),
                         Append(trace, c), scraped \/ o.ScrapeWords > 0)
                ELSE RunFiles(o, verbose, word, order, resps, k + 1,
                         ret, Append(trace, c), scraped)

\* Run, lines 122-206
Run(o, verbose, word, order, resps) ==
    LET suffix == IF o.UseSlash THEN <<"/">> ELSE <<>>
        url == o.URL \o word \o suffix
        d == get(url, FALSE, resps[1])
    IN  IF d.err # NoErr THEN RunReturn(<<>>, d.err, 1, <<>>, FALSE)
        ELSE IF d.status = <<>>
        THEN RunFiles(o, verbose, word, order, resps, 1, <<>>, <<>>, FALSE)
        ELSE
          LET verdict == ClassifyDir(o, d.status[1])
              c == [entity |-> word \o suffix, code |-> d.status[1],
                    verdict |-> verdict]
          IN  IF verdict = "Error"
              THEN RunReturn(<<>>, ErrNoLists, 1, <<>>, FALSE)
              ELSE IF Emitted(verbose, verdict)
              THEN RunFiles(o, verbose, word, order, resps, 1,
                       <<Result(word \o suffix, d.status[1], d.length, verdict)>>,
                       <<c>>, FALSE)
              ELSE RunFiles(o, verbose, word, order, resps, 1, <<>>, <<c>>, FALSE)

\* ------------------------------------------------------------- the state
VARIABLES
    opts,              \* libgobuster.Options: Threads, Verbose, Wordlist
    dopts,             \* gobusterdir.OptionsDir
    fsys,              \* standard input and the files the word list names
    target,            \* the answers the transport can give for a request
    cancelled,         \* g.context is done
    spc,               \* where Start() is
    startRet,          \* the error Start() returns
    spawned,           \* worker routines started so far (i of the loop)
    workers,           \* per worker: pc, the word held, pending results, error
    scanner,           \* the bufio.Scanner of getWordlist: lines and position
    wordChan,          \* the buffered word channel
    wordChanClosed,
    requestsExpected,
    requestsIssued,
    resultClosed,      \* number of close(g.resultChan) executed
    errorClosed,       \* number of close(g.errorChan) executed
    panicked,          \* a send on a closed channel or a second close happened
    preRunCalls,       \* number of calls of plugin.PreRun made by Start()
    preRunRet,         \* what the last of them returned
    log,               \* per line of the word source: what happened to it
    caller,            \* what the reader of Results() and Errors() has seen
    outputDir,         \* the directory "output" exists
    scrapeFiles,       \* words whose scrape file was written
    pcall,             \* the last direct call of the plugin (PluginSpec)
    mu                 \* g.mu: the number of routines holding the read lock

vars == <<opts, dopts, fsys, target, cancelled, spc, startRet, spawned, workers,
          scanner, wordChan, wordChanClosed, requestsExpected, requestsIssued,
          resultClosed, errorClosed, panicked, preRunCalls, preRunRet, log,
          caller, outputDir, scrapeFiles, pcall, mu>>

Stdin == <<"-">>
WordlistPath == <<"wl">>

\* ------------------------------------------------------------ the inputs
LineLists(S) == UNION { [1..n -> S] : n \in 0..MaxLines }

\* the files of a directory: none or one line each
ShortFiles == { <<>> } \cup { <<l>> : l \in DirLineSet }

\* the word sources: a regular file, standard input, a directory of two files
FileSystems ==
    { [kind |-> "file", files |-> <<l>>, compiled |-> <<>>] : l \in LineLists(LineSet) }
    \cup { [kind |-> "stdin", files |-> <<l>>, compiled |-> <<>>] :
             l \in LineLists(DirLineSet) }
    \cup { [kind |-> "dir", files |-> <<f, g>>, compiled |-> <<>>] :
             f \in ShortFiles, g \in ShortFiles }

\* the answers of a target that knows every status and can fail
EngineResponses == { r \in Responses : r.body # <<>> /\ (r.err \/ r.status # <<>>) }

DirOptions ==
    [URL : { BaseURL, BaseURL \o <<"/">> },
     StatusCodesParsed : SUBSET StatusCodeSet,
     StatusCodesBlacklistParsed : SUBSET StatusCodeSet,
     WildcardForced : BOOLEAN,
     UseSlash : BOOLEAN,
     ExtensionsParsed : ExtensionSets,
     ScrapeWords : {0, 1}]

\* the configurations the engine is run with: a deny-list, one extension and
\* verbose off; an allow-list, no extension and verbose on
EngineConfigs ==
    { c \in [Verbose : BOOLEAN, dir : DirOptions] :
        /\ c.dir.URL = BaseURL /\ ~c.dir.UseSlash /\ ~c.dir.WildcardForced
        /\ c.dir.ScrapeWords = 0
        /\ \/ /\ ~c.Verbose
              /\ c.dir.StatusCodesParsed = {}
              /\ c.dir.StatusCodesBlacklistParsed = {404}
              /\ c.dir.ExtensionsParsed = {"php"}
           \/ /\ c.Verbose
              /\ c.dir.StatusCodesParsed = {200}
              /\ c.dir.StatusCodesBlacklistParsed = {}
              /\ c.dir.ExtensionsParsed = {} }

NoLine == [idx |-> 0, text |-> <<>>]
IdleWorker == [pc |-> "idle", line |-> NoLine, res |-> <<>>, err |-> NoErr]
NoLog == [pushed |-> 0, recv |-> 0, runs |-> 0, trace |-> <<>>, runErr |-> NoErr,
          results |-> <<>>, errors |-> <<>>]
NoCall == [op |-> "none", arg |-> <<>>, ret |-> NoErr, res |-> <<>>, trace |-> <<>>]

InitCommon ==
    /\ cancelled = FALSE
    /\ spc = "start"
    /\ startRet = NoErr
    /\ spawned = 0
    /\ workers = [i \in 1..opts.Threads |-> IdleWorker]
    /\ scanner = [lines |-> <<>>, pos |-> 1]
    /\ wordChan = <<>>
    /\ wordChanClosed = FALSE
    /\ requestsExpected = 0
    /\ requestsIssued = 0
    /\ resultClosed = 0
    /\ errorClosed = 0
    /\ panicked = FALSE
    /\ preRunCalls = 0
    /\ preRunRet = NoErr
    /\ log = <<>>
    /\ caller = [resultsClosed |-> FALSE, errorsClosed |-> FALSE]
    /\ outputDir = FALSE
    /\ scrapeFiles = {}
    /\ pcall = NoCall
    /\ mu = [readers |-> 0]

\* NewGobuster, lines 39-51, and NewGobusterDir, lines 48-80
Init ==
    /\ fsys \in FileSystems
    /\ \E c \in EngineConfigs :
         /\ opts \in [Threads : 1..MaxThreads, Verbose : {c.Verbose},
                      Wordlist : { IF fsys.kind = "stdin" THEN Stdin
                                   ELSE WordlistPath }]
         /\ dopts = c.dir
    /\ target = EngineResponses
    /\ InitCommon

\* ------------------------------------------------------------ cancellation
\* the owner of the context cancels it
Cancel ==
    /\ ~cancelled
    /\ cancelled' = TRUE
    /\ UNCHANGED <<opts, dopts, fsys, target, spc, startRet, spawned, workers, scanner,
                   wordChan, wordChanClosed, requestsExpected, requestsIssued,
                   resultClosed, errorClosed, panicked, preRunCalls, preRunRet, log, caller,
                   outputDir, scrapeFiles, pcall, mu>>

\* ------------------------------------------------------------------ Start
\* what PreRun() does to the plugin's options and returns
PreRunStep(o, live, wild) ==
    LET n == [o EXCEPT !.URL = NormalizeURL(o.URL)]
    IN  [dopts |-> n, err |-> PreRun(n, live, wild)]

\* PreRun dereferences the status of every answer that is no error
PreRunResponses(t) == { r \in t : r.err \/ r.status # <<>> }

\* a Start() that closes the channels at its end instead of deferring it
AfterReturnNoDefer(err) == IF err # NoErr THEN "returned" ELSE "defer1"

\* Start, lines 237-238 and every return: a return runs the deferred closes
AfterReturn(err) == "defer1"

\* a Start() that goes on after a failed PreRun
AfterPreRunIgnored(err) == "spawn"

\* Start, lines 240-242: an error of PreRun is returned at once
AfterPreRun(err) == IF err # NoErr THEN AfterReturn(err) ELSE "spawn"

\* Start, lines 237-242: the two deferred closes are registered, PreRun is
\* called, and its error is returned
StartPreRun ==
    /\ spc = "start"
    /\ \E live \in PreRunResponses(target), wild \in PreRunResponses(target) :
         LET p == PreRunStep(dopts, live, wild)
         IN  /\ dopts' = p.dopts
             /\ preRunRet' = p.err
             /\ startRet' = p.err
             /\ outputDir' = (outputDir \/ p.err = NoErr)
             /\ spc' = AfterPreRun(p.err)
    /\ preRunCalls' = preRunCalls + 1
    /\ UNCHANGED <<opts, fsys, target, cancelled, spawned, workers, scanner, wordChan,
                   wordChanClosed, requestsExpected, requestsIssued, resultClosed,
                   errorClosed, panicked, log, caller, scrapeFiles, pcall, mu>>

\* Start, lines 244-253: one iteration of the loop that starts the workers
StartSpawn ==
    /\ spc = "spawn"
    /\ spawned < opts.Threads
    /\ spawned' = spawned + 1
    /\ workers' = [workers EXCEPT ![spawned + 1].pc = "select"]
    /\ UNCHANGED <<opts, dopts, fsys, target, cancelled, spc, startRet, scanner, wordChan,
                   wordChanClosed, requestsExpected, requestsIssued, resultClosed,
                   errorClosed, panicked, preRunCalls, preRunRet, log, caller, outputDir,
                   scrapeFiles, pcall, mu>>

\* lineCounter: the number of lines of the file
lineCounter(lines) == Len(lines)

\* the places where getWordlist can fail, and how far it got: 0 nothing
\* changed, 1 the compiled word list is written, 2 Opts.Wordlist is replaced,
\* 3 the counters are set
FileFailures ==
    { [what |-> "Failed to stat wordlist", stage |-> 0],
      [what |-> "failed to open wordlist", stage |-> 0],
      [what |-> "failed to get number of lines", stage |-> 0],
      [what |-> "failed to rewind wordlist", stage |-> 3] }

DirFailures ==
    { [what |-> "Failed to stat wordlist", stage |-> 0],
      [what |-> "failed to read wordlist directory", stage |-> 0],
      [what |-> "failed to open wordlist", stage |-> 0],
      [what |-> "failed to save temporary wordlist", stage |-> 0],
      [what |-> "failed to close temporary wordlist", stage |-> 1],
      [what |-> "failed to open wordlist", stage |-> 2],
      [what |-> "failed to get number of lines", stage |-> 2],
      [what |-> "failed to rewind wordlist", stage |-> 3] }

Success == [what |-> "", stage |-> 4]

Numbered(lines) == [i \in 1..Len(lines) |-> [idx |-> i, text |-> lines[i]]]

\* getWordlist, lines 127-232, with outcome f
getWordlist(f) ==
    LET lines == Concat(fsys.files)
    IN  IF opts.Wordlist = Stdin
        THEN /\ f = Success
             /\ UNCHANGED <<opts, fsys, requestsExpected, requestsIssued>>
        ELSE /\ f \in (IF fsys.kind = "file" THEN FileFailures ELSE DirFailures)
                        \cup {Success}
             /\ fsys' = IF fsys.kind = "dir" /\ f.stage >= 1
                        THEN [fsys EXCEPT !.compiled = <<lines>>] ELSE fsys
             /\ opts' = IF fsys.kind = "dir" /\ f.stage >= 2
                        THEN [opts EXCEPT !.Wordlist = CompiledName] ELSE opts
             /\ requestsExpected' = IF f.stage >= 3 THEN lineCounter(lines)
                                    ELSE requestsExpected
             /\ requestsIssued' = IF f.stage >= 3 THEN 0 ELSE requestsIssued

\* Start, lines 255-258
StartGetWordlist ==
    /\ spc = "spawn"
    /\ spawned = opts.Threads
    /\ \E f \in FileFailures \cup DirFailures \cup {Success} :
         /\ getWordlist(f)
         /\ IF f = Success
            THEN /\ scanner' = [lines |-> Numbered(Concat(fsys.files)), pos |-> 1]
                 /\ log' = [i \in 1..Len(Concat(fsys.files)) |-> NoLog]
                 /\ spc' = "scan"
                 /\ UNCHANGED startRet
            ELSE /\ startRet' = WordlistErr(f.what)
                 /\ spc' = AfterReturn(WordlistErr(f.what))
                 /\ UNCHANGED <<scanner, log>>
    /\ UNCHANGED <<dopts, target, cancelled, spawned, workers, wordChan, wordChanClosed,
                   resultClosed, errorClosed, panicked, preRunCalls, preRunRet, caller,
                   outputDir, scrapeFiles, pcall, mu>>

\* a word channel without a capacity
CanSendUnbounded(ch) == TRUE

\* Start, lines 247 and 265: a send on the word channel, made with capacity
\* Threads, goes through while the channel is not full
CanSend(ch) == Len(ch) < opts.Threads

\* Start, lines 261-266: scanner.Scan() found a line and the select sends it
StartScanPush ==
    /\ spc = "scan"
    /\ scanner.pos <= Len(scanner.lines)
    /\ CanSend(wordChan)
    /\ wordChan' = Append(wordChan, scanner.lines[scanner.pos])
    /\ scanner' = [scanner EXCEPT !.pos = @ + 1]
    /\ log' = [log EXCEPT ![scanner.pos].pushed = @ + 1]
    /\ UNCHANGED <<opts, dopts, fsys, target, cancelled, spc, startRet, spawned, workers,
                   wordChanClosed, requestsExpected, requestsIssued, resultClosed,
                   errorClosed, panicked, preRunCalls, preRunRet, caller, outputDir,
                   scrapeFiles, pcall, mu>>

\* Start, lines 261-264: scanner.Scan() found a line and the select takes Done
StartScanCancelled ==
    /\ spc = "scan"
    /\ scanner.pos <= Len(scanner.lines)
    /\ cancelled
    /\ scanner' = [scanner EXCEPT !.pos = @ + 1]
    /\ spc' = "closewc"
    /\ UNCHANGED <<opts, dopts, fsys, target, cancelled, startRet, spawned, workers,
                   wordChan, wordChanClosed, requestsExpected, requestsIssued,
                   resultClosed, errorClosed, panicked, preRunCalls, preRunRet, log, caller,
                   outputDir, scrapeFiles, pcall, mu>>

\* Start, line 261: scanner.Scan() is false
StartScanEnd ==
    /\ spc = "scan"
    /\ scanner.pos > Len(scanner.lines)
    /\ spc' = "closewc"
    /\ UNCHANGED <<opts, dopts, fsys, target, cancelled, startRet, spawned, workers,
                   scanner, wordChan, wordChanClosed, requestsExpected,
                   requestsIssued, resultClosed, errorClosed, panicked,
                   preRunCalls, preRunRet, log, caller, outputDir, scrapeFiles, pcall, mu>>

\* Start, line 268
StartCloseWordChan ==
    /\ spc = "closewc"
    /\ wordChanClosed' = TRUE
    /\ spc' = "wait"
    /\ UNCHANGED <<opts, dopts, fsys, target, cancelled, startRet, spawned, workers,
                   scanner, wordChan, requestsExpected, requestsIssued,
                   resultClosed, errorClosed, panicked, preRunCalls, preRunRet, log, caller,
                   outputDir, scrapeFiles, pcall, mu>>

\* a Wait() that does not wait
WaitDoneAtOnce == TRUE

\* Start, lines 245 and 269, worker, line 89: workerGroup.Wait() returns once
\* each of the Threads workers has returned
WaitDone == \A i \in 1..opts.Threads : workers[i].pc = "exit"

\* Start, lines 269-270: workerGroup.Wait() returns once every worker is done
StartWait ==
    /\ spc = "wait"
    /\ WaitDone
    /\ startRet' = NoErr
    /\ spc' = AfterReturn(NoErr)
    /\ UNCHANGED <<opts, dopts, fsys, target, cancelled, spawned, workers, scanner,
                   wordChan, wordChanClosed, requestsExpected, requestsIssued,
                   resultClosed, errorClosed, panicked, preRunCalls, preRunRet, log, caller,
                   outputDir, scrapeFiles, pcall, mu>>

\* Start, line 238: the deferred call registered last runs first
StartCloseErrors ==
    /\ spc = "defer1"
    /\ errorClosed' = errorClosed + 1
    /\ panicked' = (panicked \/ errorClosed > 0)
    /\ spc' = "defer2"
    /\ UNCHANGED <<opts, dopts, fsys, target, cancelled, startRet, spawned, workers,
                   scanner, wordChan, wordChanClosed, requestsExpected,
                   requestsIssued, resultClosed, preRunCalls, preRunRet, log, caller,
                   outputDir, scrapeFiles, pcall, mu>>

\* Start, line 237, after which Start() has returned
StartCloseResults ==
    /\ spc = "defer2"
    /\ resultClosed' = resultClosed + 1
    /\ panicked' = (panicked \/ resultClosed > 0)
    /\ spc' = "returned"
    /\ UNCHANGED <<opts, dopts, fsys, target, cancelled, startRet, spawned, workers,
                   scanner, wordChan, wordChanClosed, requestsExpected,
                   requestsIssued, errorClosed, preRunCalls, preRunRet, log, caller,
                   outputDir, scrapeFiles, pcall, mu>>

\* ----------------------------------------------------------------- worker
\* worker, lines 91-93: the select takes Done and the worker returns
WorkerCtxDone(i) ==
    /\ workers[i].pc = "select"
    /\ cancelled
    /\ workers' = [workers EXCEPT ![i].pc = "exit"]
    /\ UNCHANGED <<opts, dopts, fsys, target, cancelled, spc, startRet, spawned, scanner,
                   wordChan, wordChanClosed, requestsExpected, requestsIssued,
                   resultClosed, errorClosed, panicked, preRunCalls, preRunRet, log, caller,
                   outputDir, scrapeFiles, pcall, mu>>

\* a receive that leaves the word in the channel
DequeuePeek(ch) == ch

\* worker, line 94: a receive takes the oldest word out of the channel
Dequeue(ch) == Tail(ch)

\* worker, line 94: the select receives a word
WorkerReceive(i) ==
    /\ workers[i].pc = "select"
    /\ wordChan # <<>>
    /\ wordChan' = Dequeue(wordChan)
    /\ workers' = [workers EXCEPT ![i].pc = "received", ![i].line = Head(wordChan)]
    /\ log' = [log EXCEPT ![Head(wordChan).idx].recv = @ + 1]
    /\ UNCHANGED <<opts, dopts, fsys, target, cancelled, spc, startRet, spawned, scanner,
                   wordChanClosed, requestsExpected, requestsIssued, resultClosed,
                   errorClosed, panicked, preRunCalls, preRunRet, caller, outputDir,
                   scrapeFiles, pcall, mu>>

\* a worker that takes a closed channel for an empty word and loops
WorkerChanClosedLoops(i) ==
    /\ workers[i].pc = "select"
    /\ wordChan = <<>>
    /\ wordChanClosed
    /\ UNCHANGED vars

\* worker, lines 94-98: the channel is closed and empty, the worker returns
WorkerChanClosed(i) ==
    /\ workers[i].pc = "select"
    /\ wordChan = <<>>
    /\ wordChanClosed
    /\ workers' = [workers EXCEPT ![i].pc = "exit"]
    /\ UNCHANGED <<opts, dopts, fsys, target, cancelled, spc, startRet, spawned, scanner,
                   wordChan, wordChanClosed, requestsExpected, requestsIssued,
                   resultClosed, errorClosed, panicked, preRunCalls, preRunRet, log, caller,
                   outputDir, scrapeFiles, pcall, mu>>

\* incrementRequests, line 64: g.mu.Lock() waits until no reader holds the
\* lock; the routine then holds it alone until line 66
Lock == mu.readers = 0

\* a counter that is left as it is
incrementRequestsNot(n) == n

\* incrementRequests, line 65: g.requestsIssued++
incrementRequests(n) == n + 1

\* worker, lines 99-105: incrementRequests (lines 63-67), then the filter
WorkerFilter(i) ==
    /\ workers[i].pc = "received"
    /\ Lock
    /\ requestsIssued' = incrementRequests(requestsIssued)
    /\ workers' = [workers EXCEPT
                     ![i] = IF Skipped(workers[i].line.text)
                            THEN [@ EXCEPT !.pc = "select", !.line = NoLine]
                            ELSE [@ EXCEPT !.pc = "run"]]
    /\ UNCHANGED <<opts, dopts, fsys, target, cancelled, spc, startRet, spawned, scanner,
                   wordChan, wordChanClosed, requestsExpected, resultClosed,
                   errorClosed, panicked, preRunCalls, preRunRet, log, caller, outputDir,
                   scrapeFiles, pcall, mu>>

\* a worker that drops the error of Run
AfterRunDropsError(w, r) ==
    [w EXCEPT !.pc = IF r.res = <<>> THEN "delay" ELSE "sendres",
              !.res = r.res, !.err = NoErr]

\* worker, lines 108-117: where the worker goes with what Run returned
AfterRun(w, r) ==
    IF r.err # NoErr
    THEN [w EXCEPT !.pc = "senderr", !.err = r.err, !.res = <<>>]
    ELSE [w EXCEPT !.pc = IF r.res = <<>> THEN "delay" ELSE "sendres",
                   !.res = r.res, !.err = NoErr]

\* worker, line 108: the call of plugin.Run with the trimmed word
WorkerRun(i) ==
    /\ workers[i].pc = "run"
    /\ \E order \in SeqsOf(dopts.ExtensionsParsed) :
       \E resps \in [1..(1 + Len(order)) -> target] :
         LET word == TrimSpace(workers[i].line.text)
             r == Run(dopts, opts.Verbose, word, order, resps)
             n == workers[i].line.idx
         IN  /\ workers' = [workers EXCEPT ![i] = AfterRun(@, r)]
             /\ log' = [log EXCEPT ![n].runs = @ + 1, ![n].trace = r.trace,
                                   ![n].runErr = r.err]
             /\ scrapeFiles' = IF r.scraped THEN scrapeFiles \cup {word}
                               ELSE scrapeFiles
    /\ UNCHANGED <<opts, dopts, fsys, target, cancelled, spc, startRet, spawned, scanner,
                   wordChan, wordChanClosed, requestsExpected, requestsIssued,
                   resultClosed, errorClosed, panicked, preRunCalls, preRunRet, caller,
                   outputDir, pcall, mu>>

\* worker, lines 111-112: the error is handed to the reader of Errors()
WorkerSendError(i) ==
    /\ workers[i].pc = "senderr"
    /\ IF errorClosed > 0
       THEN /\ panicked' = TRUE
            /\ workers' = [workers EXCEPT ![i].pc = "panic"]
            /\ UNCHANGED log
       ELSE /\ log' = [log EXCEPT ![workers[i].line.idx].errors =
                                       Append(@, workers[i].err)]
            /\ workers' = [workers EXCEPT ![i].pc = "select", ![i].err = NoErr,
                                          ![i].line = NoLine]
            /\ UNCHANGED panicked
    /\ UNCHANGED <<opts, dopts, fsys, target, cancelled, spc, startRet, spawned, scanner,
                   wordChan, wordChanClosed, requestsExpected, requestsIssued,
                   resultClosed, errorClosed, preRunCalls, preRunRet, caller, outputDir,
                   scrapeFiles, pcall, mu>>

\* worker, lines 114-116: one Result is handed to the reader of Results()
WorkerSendResult(i) ==
    /\ workers[i].pc = "sendres"
    /\ IF resultClosed > 0
       THEN /\ panicked' = TRUE
            /\ workers' = [workers EXCEPT ![i].pc = "panic"]
            /\ UNCHANGED log
       ELSE /\ log' = [log EXCEPT ![workers[i].line.idx].results =
                                       Append(@, Head(workers[i].res))]
            /\ workers' = [workers EXCEPT
                             ![i].res = Tail(@),
                             ![i].pc = IF Tail(workers[i].res) = <<>>
                                       THEN "delay" ELSE "sendres"]
            /\ UNCHANGED panicked
    /\ UNCHANGED <<opts, dopts, fsys, target, cancelled, spc, startRet, spawned, scanner,
                   wordChan, wordChanClosed, requestsExpected, requestsIssued,
                   resultClosed, errorClosed, preRunCalls, preRunRet, caller, outputDir,
                   scrapeFiles, pcall, mu>>

\* worker, lines 119-122: Done or the delay, whichever comes first
WorkerDelay(i) ==
    /\ workers[i].pc = "delay"
    /\ workers' = [workers EXCEPT ![i].pc = "select", ![i].line = NoLine]
    /\ UNCHANGED <<opts, dopts, fsys, target, cancelled, spc, startRet, spawned, scanner,
                   wordChan, wordChanClosed, requestsExpected, requestsIssued,
                   resultClosed, errorClosed, panicked, preRunCalls, preRunRet, log, caller,
                   outputDir, scrapeFiles, pcall, mu>>

\* ------------------------------------------------------------- the caller
\* the reader of Results() finds the channel closed
CallerResultsClosed ==
    /\ resultClosed > 0
    /\ ~caller.resultsClosed
    /\ caller' = [caller EXCEPT !.resultsClosed = TRUE]
    /\ UNCHANGED <<opts, dopts, fsys, target, cancelled, spc, startRet, spawned, workers,
                   scanner, wordChan, wordChanClosed, requestsExpected,
                   requestsIssued, resultClosed, errorClosed, panicked,
                   preRunCalls, preRunRet, log, outputDir, scrapeFiles, pcall, mu>>

\* the reader of Errors() finds the channel closed
CallerErrorsClosed ==
    /\ errorClosed > 0
    /\ ~caller.errorsClosed
    /\ caller' = [caller EXCEPT !.errorsClosed = TRUE]
    /\ UNCHANGED <<opts, dopts, fsys, target, cancelled, spc, startRet, spawned, workers,
                   scanner, wordChan, wordChanClosed, requestsExpected,
                   requestsIssued, resultClosed, errorClosed, panicked,
                   preRunCalls, preRunRet, log, outputDir, scrapeFiles, pcall, mu>>

Worker(i) ==
    \/ WorkerCtxDone(i)
    \/ WorkerReceive(i)
    \/ WorkerChanClosed(i)
    \/ WorkerFilter(i)
    \/ WorkerRun(i)
    \/ WorkerSendError(i)
    \/ WorkerSendResult(i)
    \/ WorkerDelay(i)

Next ==
    \/ Cancel
    \/ StartPreRun
    \/ StartSpawn
    \/ StartGetWordlist
    \/ StartScanPush
    \/ StartScanCancelled
    \/ StartScanEnd
    \/ StartCloseWordChan
    \/ StartWait
    \/ StartCloseErrors
    \/ StartCloseResults
    \/ \E i \in DOMAIN workers : WorkerCtxDone(i)
    \/ \E i \in DOMAIN workers : WorkerReceive(i)
    \/ \E i \in DOMAIN workers : WorkerChanClosed(i)
    \/ \E i \in DOMAIN workers : WorkerFilter(i)
    \/ \E i \in DOMAIN workers : WorkerRun(i)
    \/ \E i \in DOMAIN workers : WorkerSendError(i)
    \/ \E i \in DOMAIN workers : WorkerSendResult(i)
    \/ \E i \in DOMAIN workers : WorkerDelay(i)
    \/ CallerResultsClosed
    \/ CallerErrorsClosed

Spec == Init /\ [][Next]_vars

\* The Go scheduler runs every routine that can take a step: Start(), each
\* worker, and a caller that receives from both channels.  Nothing obliges the
\* context's owner to cancel.
StartStep ==
    \/ StartPreRun
    \/ StartSpawn
    \/ StartGetWordlist
    \/ StartScanPush
    \/ StartScanCancelled
    \/ StartScanEnd
    \/ StartCloseWordChan
    \/ StartWait
    \/ StartCloseErrors
    \/ StartCloseResults

CallerStep == CallerResultsClosed \/ CallerErrorsClosed

Fairness ==
    /\ WF_vars(StartStep)
    /\ WF_vars(CallerStep)
    /\ \A i \in 1..MaxThreads : WF_vars(i \in DOMAIN workers /\ Worker(i))

\* the runs whose end is checked: every word source, the plugin without
\* extensions
LiveInit == Init /\ dopts.ExtensionsParsed = {}

LiveSpec == LiveInit /\ [][Next]_vars /\ Fairness

\* ---------------------------------------------------- a run that scrapes
\* the answers to GetWithBody: a status and a body, or an error and no body
ScrapeResponses ==
    { r \in Responses : IF r.err THEN r.body = <<>>
                        ELSE r.status # <<>> /\ r.body # <<>> }

\* a run over a file with a deny-list, one extension and ScrapeWords set
ScrapeInit ==
    /\ fsys \in { [kind |-> "file", files |-> <<l>>, compiled |-> <<>>] :
                    l \in LineLists(DirLineSet) }
    /\ opts \in [Threads : 1..MaxThreads, Verbose : {FALSE}, Wordlist : {WordlistPath}]
    /\ dopts = [URL |-> BaseURL, StatusCodesParsed |-> {},
                StatusCodesBlacklistParsed |-> {404}, WildcardForced |-> FALSE,
                UseSlash |-> FALSE, ExtensionsParsed |-> {"php"}, ScrapeWords |-> 1]
    /\ target = ScrapeResponses
    /\ InitCommon

ScrapeSpec == ScrapeInit /\ [][Next]_vars

\* ------------------------------------------ a run over a long word source
\* the word sources that outgrow the word channel: a file of 2 * MaxLines
\* lines, a directory of a file of up to MaxLines lines and one of MaxLines
LongSources ==
    { [kind |-> "file", files |-> <<l>>, compiled |-> <<>>] :
        l \in { [n \in 1..(2 * MaxLines) |-> <<" ", "a", "#", "\t">>] } }
    \cup { [kind |-> "dir", files |-> <<f, g>>, compiled |-> <<>>] :
             f \in LineLists(DirLineSet) \ { <<>> }, g \in [1..MaxLines -> DirLineSet] }

\* one worker, an allow-list, no extension and verbose on
LongInit ==
    /\ fsys \in LongSources
    /\ opts \in [Threads : {1}, Verbose : {TRUE}, Wordlist : {WordlistPath}]
    /\ dopts = [URL |-> BaseURL, StatusCodesParsed |-> {200},
                StatusCodesBlacklistParsed |-> {}, WildcardForced |-> FALSE,
                UseSlash |-> FALSE, ExtensionsParsed |-> {}, ScrapeWords |-> 0]
    /\ target = EngineResponses
    /\ InitCommon

LongSpec == LongInit /\ [][Next]_vars

\* ------------------------------------------------------- PrintProgress
\* PrintProgress, lines 71-72, called by the routine that renders progress
PrintProgressRLock ==
    /\ mu.readers = 0
    /\ mu' = [mu EXCEPT !.readers = @ + 1]
    /\ UNCHANGED <<opts, dopts, fsys, target, cancelled, spc, startRet, spawned, workers,
                   scanner, wordChan, wordChanClosed, requestsExpected,
                   requestsIssued, resultClosed, errorClosed, panicked,
                   preRunCalls, preRunRet, log, caller, outputDir, scrapeFiles, pcall>>

\* PrintProgress, lines 73-79: the counters are read and the lock released
PrintProgressRUnlock ==
    /\ mu.readers > 0
    /\ mu' = [mu EXCEPT !.readers = @ - 1]
    /\ UNCHANGED <<opts, dopts, fsys, target, cancelled, spc, startRet, spawned, workers,
                   scanner, wordChan, wordChanClosed, requestsExpected,
                   requestsIssued, resultClosed, errorClosed, panicked,
                   preRunCalls, preRunRet, log, caller, outputDir, scrapeFiles, pcall>>

\* a run over a file or a directory while progress is rendered
ProgressInit ==
    /\ fsys \in { [kind |-> "file", files |-> <<l>>, compiled |-> <<>>] :
                    l \in LineLists(DirLineSet) }
               \cup { [kind |-> "dir", files |-> <<f, f>>, compiled |-> <<>>] :
                        f \in ShortFiles }
    /\ opts \in [Threads : 1..MaxThreads, Verbose : {TRUE}, Wordlist : {WordlistPath}]
    /\ dopts = [URL |-> BaseURL, StatusCodesParsed |-> {200},
                StatusCodesBlacklistParsed |-> {}, WildcardForced |-> FALSE,
                UseSlash |-> FALSE, ExtensionsParsed |-> {}, ScrapeWords |-> 0]
    /\ target = EngineResponses
    /\ InitCommon

ProgressNext ==
    \/ Next
    \/ PrintProgressRLock
    \/ PrintProgressRUnlock

ProgressSpec == ProgressInit /\ [][ProgressNext]_vars

\* ------------------------------------------------- the plugin called directly
\* PluginSpec makes one call of PreRun or of Run on a new GobusterDir, for
\* every configuration of the two status lists, and records it in pcall.
PluginWords == { <<"a">>, <<"a", "#">> }

PluginInit ==
    /\ fsys = [kind |-> "stdin", files |-> << <<>> >>, compiled |-> <<>>]
    /\ opts \in [Threads : {1}, Verbose : BOOLEAN, Wordlist : {Stdin}]
    /\ dopts \in DirOptions
    /\ target = Responses
    /\ InitCommon

\* a call of GobusterDir.PreRun, lines 83-119
PluginPreRun ==
    /\ pcall.op = "none"
    /\ \E live \in PreRunResponses(target), wild \in PreRunResponses(target) :
         LET p == PreRunStep(dopts, live, wild)
         IN  /\ dopts' = p.dopts
             /\ outputDir' = (outputDir \/ p.err = NoErr)
             /\ pcall' = [op |-> "PreRun", arg |-> <<live, wild>>, ret |-> p.err,
                          res |-> <<>>, trace |-> <<>>]
    /\ UNCHANGED <<opts, fsys, target, cancelled, spc, startRet, spawned, workers,
                   scanner, wordChan, wordChanClosed, requestsExpected,
                   requestsIssued, resultClosed, errorClosed, panicked,
                   preRunCalls, preRunRet, log, caller, scrapeFiles, mu>>

\* a call of GobusterDir.Run, lines 122-206
PluginRun ==
    /\ pcall.op = "none"
    /\ \E word \in PluginWords :
       \E order \in SeqsOf(dopts.ExtensionsParsed) :
       \E resps \in [1..(1 + Len(order)) -> target] :
         LET r == Run(dopts, opts.Verbose, word, order, resps)
         IN  /\ pcall' = [op |-> "Run", arg |-> <<word, order, resps>>,
                          ret |-> r.err, res |-> r.res, trace |-> r.trace]
             /\ scrapeFiles' = IF r.scraped THEN scrapeFiles \cup {word}
                               ELSE scrapeFiles
    /\ UNCHANGED <<opts, dopts, fsys, target, cancelled, spc, startRet, spawned,
                   workers, scanner, wordChan, wordChanClosed, requestsExpected,
                   requestsIssued, resultClosed, errorClosed, panicked,
                   preRunCalls, preRunRet, log, caller, outputDir, mu>>

PluginNext ==
    \/ PluginPreRun
    \/ PluginRun

PluginSpec == PluginInit /\ [][PluginNext]_vars

\* ------------------------------------------------------------- properties
Returned == spc = "returned"

\* the lines of the word source, once getWordlist has read it
Lines == [n \in 1..Len(scanner.lines) |-> scanner.lines[n].text]

Holds(i, n) == workers[i].line.idx = n

\* C1: whenever Start() has returned, by whatever path, close() has been
\* executed exactly once on the results channel and exactly once on the
\* errors channel, and never more than once before.
C1_ClosedExactlyOnce ==
    /\ resultClosed <= 1
    /\ errorClosed <= 1
    /\ Returned => resultClosed = 1 /\ errorClosed = 1

\* Start() has returned a word-list error after starting its workers
C1_Witness ==
    /\ Returned
    /\ startRet.kind = "failed to rewind wordlist"
    /\ spawned = opts.Threads
    /\ resultClosed = 1 /\ errorClosed = 1

\* C2: under fair scheduling of Start(), the workers and a caller that is
\* always ready to receive, every run reaches the state where Start() has
\* returned and the caller has seen both channels closed, whether or not the
\* context is cancelled on the way.
C2_EventuallyReturns ==
    <>(Returned /\ caller.resultsClosed /\ caller.errorsClosed)

\* a run cancelled after a word was pushed has returned, the caller has seen
\* both channels closed
C2_Witness ==
    /\ Returned /\ caller.resultsClosed /\ caller.errorsClosed
    /\ cancelled
    /\ \E n \in DOMAIN log : log[n].pushed = 1 /\ log[n].recv = 0
    /\ \E n \in DOMAIN log : log[n].runs = 1

RECURSIVE Sum(_, _)
Sum(f, n) == IF n = 0 THEN 0 ELSE f[n] + Sum(f, n - 1)

Pushed == Sum([n \in DOMAIN log |-> log[n].pushed], Len(log))
Received == Sum([n \in DOMAIN log |-> log[n].recv], Len(log))

\* C3: once the context is cancelled, no step pushes a word into the word
\* channel and no step makes a worker receive a word.
C3_NoNewWorkAfterCancel ==
    [][cancelled => (Pushed' = Pushed /\ Received' = Received)]_vars

\* C4: Start() calls PreRun exactly once, before any worker is started; when
\* PreRun returned an error, Start() returns that error, no worker is ever
\* started, the word source is never read and no word is received or probed.
C4_PreRunOnceAndFirst ==
    /\ preRunCalls <= 1
    /\ spc # "start" => preRunCalls = 1
    /\ spawned > 0 => preRunCalls = 1 /\ preRunRet = NoErr
    /\ preRunRet # NoErr =>
         /\ spc \in {"defer1", "defer2", "returned"}
         /\ startRet = preRunRet
         /\ spawned = 0
         /\ \A i \in DOMAIN workers : workers[i].pc = "idle"
         /\ scanner = [lines |-> <<>>, pos |-> 1]
         /\ wordChan = <<>>
         /\ log = <<>>
         /\ requestsIssued = 0

\* Start() has returned the wildcard error of PreRun
C4_Witness ==
    /\ Returned
    /\ preRunRet.kind = "ErrWildcard"
    /\ startRet = preRunRet

\* the claim's own reading of a blank line and of a comment line
IsBlank(line) == \A k \in 1..Len(line) : line[k] \in WhiteSpace
IsComment(line) ==
    \E k \in 1..Len(line) :
        line[k] = "#" /\ \A j \in 1..(k - 1) : line[j] \in WhiteSpace

\* a worker has finished with line n
Past(n) == log[n].recv >= 1 /\ \A i \in DOMAIN workers : ~Holds(i, n)

\* C5: a line whose probe returned an error gets exactly that error on the
\* errors channel and no Result; the worker goes on (a worker only exits on
\* cancellation or on the closed, empty word channel); a line whose probe
\* returned no error gets no error; and when an uncancelled run has returned,
\* it returned no error and every line was received, every kept line probed.
C5_ProbeErrorNotFatal ==
    /\ \A n \in DOMAIN log :
         /\ log[n].runErr # NoErr =>
              /\ log[n].results = <<>>
              /\ log[n].errors \in { <<>>, <<log[n].runErr>> }
              /\ Past(n) => log[n].errors = <<log[n].runErr>>
         /\ log[n].runErr = NoErr => log[n].errors = <<>>
    /\ \A i \in DOMAIN workers :
         /\ workers[i].pc = "exit" => cancelled \/ (wordChanClosed /\ wordChan = <<>>)
         /\ workers[i].pc # "panic"
    /\ (Returned /\ ~cancelled /\ \E n \in DOMAIN log : log[n].runErr # NoErr) =>
         /\ startRet = NoErr
         /\ \A n \in DOMAIN log :
              /\ log[n].recv = 1
              /\ log[n].runs = IF IsBlank(Lines[n]) \/ IsComment(Lines[n])
                               THEN 0 ELSE 1

\* an uncancelled run has returned in which the probe of the first line
\* failed and the probe of the second line gave a Result
C5_Witness ==
    /\ Returned /\ ~cancelled /\ startRet = NoErr
    /\ Len(log) = 2
    /\ log[1].runErr # NoErr /\ log[1].errors = <<log[1].runErr>>
    /\ log[2].runs = 1 /\ log[2].runErr = NoErr /\ log[2].results # <<>>

\* C6: every line is pushed at most once, received at most once and probed at
\* most once, no two workers hold the same line, and when an uncancelled run
\* has returned without error every line that is neither blank nor a comment
\* was probed exactly once.
C6_EachLineAtMostOnce ==
    /\ \A n \in DOMAIN log :
         /\ log[n].pushed <= 1
         /\ log[n].recv <= log[n].pushed
         /\ log[n].runs <= log[n].recv
    /\ \A i, j \in DOMAIN workers :
         (i # j /\ workers[i].line.idx # 0) => workers[i].line.idx # workers[j].line.idx
    /\ (Returned /\ ~cancelled /\ startRet = NoErr) =>
         \A n \in DOMAIN log :
             (~IsBlank(Lines[n]) /\ ~IsComment(Lines[n])) => log[n].runs = 1

\* an uncancelled run of two workers over two kept lines has returned
C6_Witness ==
    /\ Returned /\ ~cancelled /\ startRet = NoErr
    /\ opts.Threads = 2
    /\ Len(log) = 2
    /\ \A n \in DOMAIN log : log[n].runs = 1 /\ log[n].recv = 1

\* C7: a blank line or a comment line is never probed and gets neither a
\* Result nor an error, and the step in which a worker handles it adds one to
\* the requests-issued counter.
C7_SkippedLineCounted ==
    /\ [](\A n \in DOMAIN log :
            (IsBlank(Lines[n]) \/ IsComment(Lines[n])) =>
                /\ log[n].runs = 0
                /\ log[n].results = <<>>
                /\ log[n].errors = <<>>)
    /\ [][\A i \in DOMAIN workers :
            (/\ workers[i].pc = "received"
             /\ workers'[i].pc # "received"
             /\ IsBlank(workers[i].line.text) \/ IsComment(workers[i].line.text))
            => (requestsIssued' = requestsIssued + 1 /\ workers'[i].pc = "select")]_vars

\* a comment line and a blank line have been received and counted
C7_Witness ==
    /\ Len(log) = 2
    /\ IsComment(Lines[1]) /\ IsBlank(Lines[2])
    /\ Past(1) /\ Past(2)
    /\ requestsIssued = 2

\* the verdict the two lists give a status code, as the claim words it
Verdict(allow, deny, code) ==
    IF deny # {} THEN (IF code \in deny THEN "Missed" ELSE "Found")
    ELSE IF allow # {} THEN (IF code \in allow THEN "Found" ELSE "Missed")
    ELSE "Error"

\* the candidates of a call of Run that were asked for and answered with a
\* status: <<entity, code>> in the order of the requests
RECURSIVE Answered(_, _, _, _)
Answered(word, order, resps, k) ==
    IF k > Len(resps) THEN <<>>
    ELSE IF resps[k].err \/ (k > 1 /\ dopts.ScrapeWords > 0 /\ resps[k].body = <<>>)
    THEN <<>>
    ELSE IF resps[k].status = <<>> THEN Answered(word, order, resps, k + 1)
    ELSE << <<IF k = 1 THEN word \o (IF dopts.UseSlash THEN <<"/">> ELSE <<>>)
              ELSE word \o <<".", order[k - 1]>>,
              resps[k].status[1]>> >> \o Answered(word, order, resps, k + 1)

\* C8: in a call of Run, every candidate that was answered with a status,
\* the directory candidate and each file candidate alike, gets the verdict
\* Found iff its code is not in the deny-list when the deny-list is not
\* empty, else Found iff its code is in the allow-list when that is not empty;
\* with both lists empty Run gives no verdict and returns an error as soon as
\* a candidate is answered with a status.
C8_Classification ==
    pcall.op = "Run" =>
      LET allow == dopts.StatusCodesParsed
          deny == dopts.StatusCodesBlacklistParsed
          a == Answered(pcall.arg[1], pcall.arg[2], pcall.arg[3], 1)
      IN  IF allow = {} /\ deny = {}
          THEN /\ pcall.trace = <<>>
               /\ pcall.res = <<>>
               /\ a # <<>> => pcall.ret # NoErr
          ELSE /\ Len(pcall.trace) = Len(a)
               /\ \A k \in 1..Len(a) :
                    /\ pcall.trace[k].entity = a[k][1]
                    /\ pcall.trace[k].code = a[k][2]
                    /\ pcall.trace[k].verdict = Verdict(allow, deny, a[k][2])

\* a call of Run with both lists set in which a file candidate whose code is
\* in the allow-list and in the deny-list was classified Missed
C8_Witness ==
    /\ pcall.op = "Run"
    /\ dopts.StatusCodesParsed = {200, 404}
    /\ dopts.StatusCodesBlacklistParsed = {404}
    /\ Len(pcall.trace) = 3
    /\ pcall.trace[1].verdict = "Found"
    /\ pcall.trace[3].code = 404 /\ pcall.trace[3].verdict = "Missed"

\* C9: in a call of PreRun that reached the baseline check with a status
\* code, with at least one list not empty: PreRun returns the wildcard error
\* with the probed URL and that code iff Run classifies that code as Found
\* (as a directory and as a file candidate) and WildcardForced is off;
\* otherwise it returns no error.
C9_WildcardGuardSamePolicy ==
    (/\ pcall.op = "PreRun"
     /\ ~pcall.arg[1].err /\ ~pcall.arg[2].err
     /\ dopts.StatusCodesParsed # {} \/ dopts.StatusCodesBlacklistParsed # {}) =>
      LET code == pcall.arg[2].status[1]
          url == dopts.URL \o <<"uuid">>
          found == ClassifyDir(dopts, code) = "Found"
      IN  /\ ClassifyFile(dopts, code) = ClassifyDir(dopts, code)
          /\ HasSuffix(dopts.URL, "/")
          /\ IF found /\ ~dopts.WildcardForced
             THEN pcall.ret = ErrWildcard(url, code)
             ELSE pcall.ret = NoErr

\* PreRun refused a baseline status that the deny-list does not hold although
\* the allow-list does not hold it either
C9_Witness ==
    /\ pcall.op = "PreRun"
    /\ pcall.ret.kind = "ErrWildcard" /\ pcall.ret.statusCode = <<200>>
    /\ dopts.StatusCodesParsed = {404}
    /\ dopts.StatusCodesBlacklistParsed = {404}

\* the Results a list of classified candidates gives when each candidate
\* that is Found, or any candidate when verbose is on, yields one
ToEmit(trace) ==
    LET kept == SelectSeq(trace, LAMBDA c : c.verdict = "Found" \/ opts.Verbose)
    IN  [k \in 1..Len(kept) |->
            [Entity |-> kept[k].entity, StatusCode |-> kept[k].code,
             Status |-> kept[k].verdict]]

\* the Results of line n that reached the results channel, without the size
Sent(n) ==
    [k \in 1..Len(log[n].results) |->
        [Entity |-> log[n].results[k].Entity,
         StatusCode |-> log[n].results[k].StatusCode,
         Status |-> log[n].results[k].Status]]

\* C10 as claimed: when Start() has returned, every candidate classified Found
\* has its Result on the results channel, and a candidate classified Missed
\* has one iff verbose is on.
C10_EveryFoundEmitted ==
    Returned => \A n \in DOMAIN log : Sent(n) = ToEmit(log[n].trace)

\* C10, amended: with verbose off every Result on the results channel is
\* Found; once a worker is done with a line whose probe returned no error,
\* the results channel got exactly the Results of its candidates classified
\* Found and, iff verbose is on, of those classified Missed; a line whose
\* probe returned an error got no Result, whatever was classified before.
C10_EmittedUnlessProbeFails ==
    \A n \in DOMAIN log :
        /\ \A k \in 1..Len(log[n].results) :
             log[n].results[k].Status = "Found" \/ opts.Verbose
        /\ Past(n) =>
             Sent(n) = IF log[n].runErr = NoErr THEN ToEmit(log[n].trace) ELSE <<>>

\* the run of the claim's example has returned: verbose off, the first word
\* Found as a directory and Missed as a file, the second the other way round,
\* and the results channel got the first word and the second word's file
C10_Witness ==
    /\ Returned /\ ~opts.Verbose
    /\ Len(log) = 2
    /\ Len(log[1].trace) = 2 /\ Len(log[2].trace) = 2
    /\ log[1].trace[1].verdict = "Found" /\ log[1].trace[2].verdict = "Missed"
    /\ log[2].trace[1].verdict = "Missed" /\ log[2].trace[2].verdict = "Found"
    /\ Len(log[1].results) = 1 /\ log[1].results[1].Entity = <<"a", "#">>
    /\ Len(log[2].results) = 1
    /\ log[2].results[1].Entity = <<"a", "#", ".", "php">>

\* the extensions in the order in which the configuration lists them
ExtensionList == <<"php", "txt">>

\* C11: in a call of Run the directory candidate is classified, and its
\* Result placed, before every file candidate, and the file candidates are
\* classified, and their Results placed, in the order in which the
\* configuration lists the extensions.
C11_ConfiguredExtensionOrder ==
    pcall.op = "Run" =>
      LET word == pcall.arg[1]
          IsFile(e) == Len(e) = Len(word) + 2
          Rank(e) == CHOOSE r \in 1..Len(ExtensionList) : ExtensionList[r] = e[Len(e)]
          InOrder(es) ==
              /\ \A k \in 2..Len(es) : IsFile(es[k])
              /\ \A j, k \in 1..Len(es) :
                    (j < k /\ IsFile(es[j]) /\ IsFile(es[k])) => Rank(es[j]) < Rank(es[k])
      IN  /\ InOrder([k \in 1..Len(pcall.trace) |-> pcall.trace[k].entity])
          /\ InOrder([k \in 1..Len(pcall.res) |-> pcall.res[k].Entity])

\* the errors of loading the word list
WordlistErrors == { WordlistErr(f.what) : f \in FileFailures \cup DirFailures }

\* C12: when Start() has returned an error of loading the word list, no
\* worker routine was started and none is running.
C12_WordlistErrorBeforeWorkers ==
    (Returned /\ startRet \in WordlistErrors) =>
        /\ spawned = 0
        /\ \A i \in DOMAIN workers : workers[i].pc = "idle"

\* the errors of Run that tell of a defect of the program or of its
\* configuration
InternalErrors == { ErrNilBody, ErrNoLists }

\* C13: when the probe of a line returned an internal error, Start() returns
\* that error, and a single worker probes no later line.
C13_InternalErrorFatal ==
    \A n \in DOMAIN log :
        log[n].runErr \in InternalErrors =>
            /\ Returned => startRet = log[n].runErr
            /\ opts.Threads = 1 => \A m \in DOMAIN log : m > n => log[m].runs = 0

\* getWordlist() has returned a scanner
Loaded ==
    \/ spc \in {"scan", "closewc", "wait"}
    \/ spc \in {"defer1", "defer2", "returned"} /\ startRet = NoErr

\* line n of a directory's files taken one after the other
FileThenFile(n) ==
    IF n <= Len(fsys.files[1]) THEN fsys.files[1][n]
    ELSE fsys.files[2][n - Len(fsys.files[1])]

\* C14: when the word list is a directory of two files, the expected count
\* is the sum of the files' line counts, the n-th word offered to the workers
\* is the n-th line of file 1 followed by file 2, the words are offered in
\* that order and each at most once, and an uncancelled run has offered and
\* delivered every one of them exactly once when it returns.
C14_DirectoryConcatenation ==
    (fsys.kind = "dir" /\ Loaded) =>
        LET total == Len(fsys.files[1]) + Len(fsys.files[2])
        IN  /\ requestsExpected = total
            /\ Len(log) = total
            /\ \A n \in DOMAIN log :
                 /\ log[n].pushed <= 1
                 /\ log[n].pushed = 1 => n < scanner.pos
                 /\ log[n].pushed = 1 => \A m \in 1..(n - 1) : log[m].pushed = 1
                 /\ (n < scanner.pos /\ ~cancelled) => log[n].pushed = 1
                 /\ n < scanner.pos - 1 => log[n].pushed = 1
            /\ \A k \in DOMAIN wordChan :
                 /\ wordChan[k].text = FileThenFile(wordChan[k].idx)
                 /\ k > 1 => wordChan[k].idx = wordChan[k - 1].idx + 1
            /\ \A i \in DOMAIN workers :
                 workers[i].line.idx # 0 =>
                     workers[i].line.text = FileThenFile(workers[i].line.idx)
            /\ (Returned /\ ~cancelled) =>
                 \A n \in DOMAIN log : log[n].pushed = 1 /\ log[n].recv = 1

\* an uncancelled run over a directory of a file of one line and a file of
\* two other lines has returned: three words expected, offered and received
C14_Witness ==
    /\ Returned /\ ~cancelled /\ startRet = NoErr
    /\ fsys.kind = "dir"
    /\ fsys.files = << << <<"\t", "#", "a">> >>,
                       << <<" ", "a", "#", "\t">>, <<"\t", "#", "a">> >> >>
    /\ requestsExpected = 3
    /\ \A n \in DOMAIN log : log[n].pushed = 1 /\ log[n].recv = 1
    /\ log[1].runs = 0 /\ log[2].runs = 1 /\ log[3].runs = 0

\* C15: no step of a run changes the global options or the plugin's options.
C15_OptionsImmutable ==
    [][opts' = opts /\ dopts' = dopts]_vars

\* C16: in a call of Run with a status list set, when the request of a
\* candidate fails and no earlier request of the call failed or came back
\* without the body that scraping needs, Run returns the transport error.
C16_TransportErrorFirst ==
    (/\ pcall.op = "Run"
     /\ dopts.StatusCodesParsed # {} \/ dopts.StatusCodesBlacklistParsed # {}) =>
      LET resps == pcall.arg[3]
          Clean(j) == /\ ~resps[j].err
                      /\ j = 1 \/ dopts.ScrapeWords = 0 \/ resps[j].body # <<>>
      IN  \A k \in DOMAIN resps :
              (resps[k].err /\ \A j \in 1..(k - 1) : Clean(j)) =>
                  pcall.ret.kind = "transport"

\* C17: no step writes the requests-issued or the requests-expected counter
\* while PrintProgress holds the read lock.
C17_CountersUnderLock ==
    [][(requestsIssued' # requestsIssued \/ requestsExpected' # requestsExpected)
         => mu.readers = 0]_vars

\* C18: a worker that has called Run gets back to the select that receives
\* the next word only through the wait for the delay.
C18_DelayAfterEveryProbe ==
    [][\A i \in DOMAIN workers :
         workers[i].pc \in {"run", "senderr", "sendres"} => workers'[i].pc # "select"]_vars

\* the lines the producer has read from the scanner, the one it is waiting
\* to send included
Read ==
    IF spc = "scan" /\ scanner.pos <= Len(scanner.lines) THEN scanner.pos
    ELSE scanner.pos - 1

\* the lines a worker has finished with
Completed == Cardinality({ n \in DOMAIN log : Past(n) })

\* the worker routines that were started
Started == { i \in DOMAIN workers : workers[i].pc # "idle" }

\* C19: a run starts one worker per iteration and Threads workers in all, so
\* at most Threads lines are in the hands of workers; the word channel never
\* holds more than Threads words; unless the run is cancelled every line the
\* producer has passed was sent; and the producer has never read more than
\* 2 * Threads + 1 lines beyond the completed ones.
C19_BoundedConcurrency ==
    /\ Cardinality(Started) = spawned
    /\ spawned <= opts.Threads
    /\ (spc \notin {"start", "spawn"} /\ preRunRet = NoErr) => spawned = opts.Threads
    /\ Cardinality({ n \in DOMAIN log : \E i \in DOMAIN workers : Holds(i, n) })
         <= opts.Threads
    /\ Len(wordChan) <= opts.Threads
    /\ ~cancelled => \A n \in DOMAIN log : n < scanner.pos => log[n].pushed = 1
    /\ Pushed - Completed <= 2 * opts.Threads
    /\ Read - Completed <= 2 * opts.Threads + 1

\* the producer of an uncancelled run waits with the third line of a longer
\* list: the channel is full and the one worker is busy with the first line
C19_Witness ==
    /\ ~cancelled /\ spc = "scan"
    /\ opts.Threads = 1
    /\ Len(scanner.lines) > 3 /\ scanner.pos = 3
    /\ Len(wordChan) = opts.Threads
    /\ workers[1].pc = "run" /\ Holds(1, 1)
    /\ Read - Completed = 2 * opts.Threads + 1
    /\ ~ENABLED StartScanPush

\* C20: no send on a closed channel ever happened; a worker that is about
\* to send finds its channel open; and once Start() has closed a channel
\* every worker has returned, was never started, or waits at an empty word
\* channel that is not closed, where nothing but cancellation wakes it.
C20_NoSendOnClosedChannel ==
    /\ ~panicked
    /\ \A i \in DOMAIN workers :
         /\ workers[i].pc # "panic"
         /\ workers[i].pc = "senderr" => errorClosed = 0
         /\ workers[i].pc = "sendres" => resultClosed = 0
         /\ (errorClosed > 0 \/ resultClosed > 0) =>
              \/ workers[i].pc \in {"idle", "exit"}
              \/ /\ workers[i].pc = "select"
                 /\ wordChan = <<>> /\ ~wordChanClosed
                 /\ spc \in {"defer1", "defer2", "returned"}

\* Start() has returned a word-list error and closed both channels while
\* its two workers, never cancelled, still wait for a word
C20_Witness ==
    /\ Returned /\ ~cancelled
    /\ startRet \in WordlistErrors
    /\ resultClosed = 1 /\ errorClosed = 1
    /\ opts.Threads = 2
    /\ \A i \in DOMAIN workers : workers[i].pc = "select"

\* the workers that have received a line and not yet counted it
Uncounted == { i \in DOMAIN workers : workers[i].pc = "received" }

\* C21 as claimed: the requests-issued counter always equals the number of
\* lines the workers have received from the word channel.
C21_IssuedEqualsReceived ==
    requestsIssued = Received

\* C21, amended: the requests-issued counter equals the number of lines
\* received less the workers that stand between their receive and their
\* increment, so it never exceeds the lines received, nor the lines pushed,
\* nor the N lines of the word list; when Start() has returned it equals the
\* number of lines received, and N when the run was not cancelled and
\* returned no error.
C21_IssuedTracksReceived ==
    /\ requestsIssued = Received - Cardinality(Uncounted)
    /\ requestsIssued <= Received
    /\ Received <= Pushed
    /\ Pushed <= Len(log)
    /\ Returned => requestsIssued = Received
    /\ (Returned /\ ~cancelled /\ Loaded) => requestsIssued = Len(log)

\* two workers have run over a file of a blank line and a kept line without
\* cancellation, Start() has returned and the counter stands at 2
C21_Witness ==
    /\ Returned /\ ~cancelled /\ startRet = NoErr
    /\ fsys.kind = "file" /\ opts.Threads = 2
    /\ Len(log) = 2
    /\ IsBlank(Lines[1]) /\ log[2].runs = 1
    /\ requestsIssued = 2 /\ requestsExpected = 2

====
